---- MODULE Spec2Model ----
(***************************************************************************)
(* Model of fetch_papers.py: the arXiv polling script that loads a pickled *)
(* database, requests one page of the feed, merges the entries into the    *)
(* database by raw id and version, saves it when something was added, and  *)
(* sleeps, in an endless loop that production mode leaves at a size cap.   *)
(*                                                                         *)
(* Python str values are sequences of one-character strings, so that       *)
(* rfind, slicing and split can be computed as the code computes them.     *)
(***************************************************************************)
EXTENDS Integers, Sequences, FiniteSets, TLC

\* ------------------------------------------------------------------ bounds
\* Longest URL drawn for the parser on its own.
MaxUrlLen == 6
\* Raw ids the upstream serves are "1" .. MaxId, versions 1 .. MaxVersion.
MaxId == 2
MaxVersion == 2
\* Most entries in one page of the feed.
MaxPageLen == 3
\* Most pages the run of equal pages is followed over.
MaxPages == 2
\* Stands for max_paper_index = 30000 (fetch_papers.py line 18), scaled down
\* so that the bounded upstream can fill the database up to the cap.
max_paper_index == 2

\* ------------------------------------------------------- Python str helpers
Digits == <<"0", "1", "2", "3", "4", "5", "6", "7", "8", "9">>

IsDigit(c) == \E k \in 1..10 : Digits[k] = c

DigitVal(c) == (CHOOSE k \in 1..10 : Digits[k] = c) - 1

\* The characters URLs are drawn from: the two delimiters the parser looks
\* for, digits, a letter and a sign.
Chars == {"/", "v", "0", "1", "2", "a", "-"}

\* str.rfind(c): the highest index holding c, or -1; here indices start at
\* 1, so "not found" is 0 and url[ix + 1:] keeps its meaning.
RFind(s, c) ==
  IF \E i \in 1..Len(s) : s[i] = c
  THEN CHOOSE i \in 1..Len(s) : s[i] = c /\ \A k \in (i + 1)..Len(s) : s[k] # c
  ELSE 0

\* str.find(c): the lowest index holding c, or "not found".
Find(s, c) ==
  IF \E i \in 1..Len(s) : s[i] = c
  THEN CHOOSE i \in 1..Len(s) : s[i] = c /\ \A k \in 1..(i - 1) : s[k] # c
  ELSE 0

\* s[ix + 1:]
SliceFrom(s, ix) == SubSeq(s, ix + 1, Len(s))

\* str.split(c): cut at every c; a string without c is one part, and so is
\* the empty string.
RECURSIVE Split(_, _)
Split(s, c) ==
  LET i == Find(s, c)
  IN  IF i = 0 THEN <<s>>
      ELSE <<SubSeq(s, 1, i - 1)>> \o Split(SliceFrom(s, i), c)

\* The value int() accumulates over a run of decimal digits, left to right.
RECURSIVE DigitsValue(_, _)
DigitsValue(t, acc) ==
  IF t = <<>> THEN acc
  ELSE DigitsValue(Tail(t), acc * 10 + DigitVal(Head(t)))

IsDigitRun(t) == t # <<>> /\ \A i \in 1..Len(t) : IsDigit(t[i])

\* int(t) accepts an optional sign followed by decimal digits (over Chars).
IntAccepts(t) ==
  \/ IsDigitRun(t)
  \/ t # <<>> /\ Head(t) = "-" /\ IsDigitRun(Tail(t))

IntValue(t) ==
  IF Head(t) = "-" THEN 0 - DigitsValue(Tail(t), 0) ELSE DigitsValue(t, 0)

\* ---------------------------------------------------------- parse_arxiv_url
\* What a plausible slip would compute instead of url.rfind('/'): the first '/'.
FirstSlash(url) == Find(url, "/")

\* ix = url.rfind('/')
LastSlash(url) == RFind(url, "/")

\* The slip of accepting any url that has a version delimiter at all.
PartsAtLeastTwo(parts) == Len(parts) >= 2

\* assert len(parts) == 2
PartsOk(parts) == Len(parts) = 2

\* Returns (parts[0], int(parts[1])), or raises: the assert when the token
\* does not split in two, int()'s ValueError when the version is no number.
parse_arxiv_url(url) ==
  LET ix == LastSlash(url)
      idversion == SliceFrom(url, ix)
      parts == Split(idversion, "v")
  IN  IF ~PartsOk(parts) THEN [raised |-> "AssertionError"]
      ELSE IF ~IntAccepts(parts[2]) THEN [raised |-> "ValueError"]
      ELSE [raised |-> "none", rawid |-> parts[1], version |-> IntValue(parts[2])]

\* ------------------------------------------------------ the upstream's feed
\* feedparser hands back its own wrapper classes; a value is tagged with the
\* class it has in Python so that the deep copy has something to convert.
Str(v) == [cls |-> "str", v |-> v]
FeedParserDict(kv) == [cls |-> "FeedParserDict", kv |-> kv]
PyList(items) == [cls |-> "list", items |-> items]

\* Deep copy into plain mappings (functions), plain lists (sequences) and
\* scalars.
RECURSIVE encode_feedparser_dict(_)
encode_feedparser_dict(d) ==
  IF d.cls \in {"FeedParserDict", "dict"}
  THEN [k \in DOMAIN d.kv |-> encode_feedparser_dict(d.kv[k])]
  ELSE IF d.cls = "list"
  THEN [i \in 1..Len(d.items) |-> encode_feedparser_dict(d.items[i])]
  ELSE d.v

\* http://arxiv.org/abs/<i>v<n>, shortened to a/<i>v<n>.
Url(i, n) == <<"a", "/", ToString(i), "v", ToString(n)>>

Tags == PyList(<<FeedParserDict([term |-> Str("cs.CV")])>>)

\* An entry of the feed for paper i in version n, with the id, updated and
\* title every entry of the Atom feed has. The first version carries a
\* comment, later versions a journal reference instead.
Entry(i, n, title) ==
  FeedParserDict(
    IF n = 1
    THEN [id |-> Str(Url(i, n)), updated |-> Str(ToString(n)), title |-> Str(title),
          tags |-> Tags, arxiv_comment |-> Str("draft")]
    ELSE [id |-> Str(Url(i, n)), updated |-> Str(ToString(n)), title |-> Str(title),
          tags |-> Tags, arxiv_journal_ref |-> Str("journal")])

\* Entries whose id does not end in <id>v<version>, or whose version is no
\* number.
EntryNoVersion == FeedParserDict([id |-> Str(<<"a", "/", "1">>), updated |-> Str("1"),
                                  title |-> Str("t")])
EntryBadVersion == FeedParserDict([id |-> Str(<<"a", "/", "1", "v", "a">>),
                                   updated |-> Str("1"), title |-> Str("t")])

Entries ==
  {Entry(i, n, "t") : i \in 1..MaxId, n \in 1..MaxVersion}
    \cup {Entry(1, 1, "t, revised")}
    \cup {EntryNoVersion, EntryBadVersion}

\* ------------------------------------------------------------------- state
\* The response is opaque until the loop reads an entry, so the model draws
\* the length of parse.entries with the request and each entry when the loop
\* reaches it.
VARIABLES
  isInProductionMode,  \* the module-level switch
  argv,                \* the command line: per option, the values given
  args,                \* parser.parse_args() of the iteration
  disk,                \* what Config.db_path holds
  db,                  \* the module-level database, rawid -> record
  pc,                  \* where the script is
  n_entries,           \* len(parse.entries)
  ei,                  \* entries of the page the for loop has been through
  j,                   \* the record made of the loop's current entry
  num_added,           \* records added from the page
  num_skipped,         \* records of the page the database already had
  query,               \* start and max_results of the iteration's request
  highest,             \* history: rawid -> the highest version merged for it
  changed,             \* history: db was assigned in this iteration
  saved,               \* history: the database was stored in this iteration
  run,                 \* history: the pages so far, while all are alike
  purl,                \* the url given to the parser on its own
  pres                 \* what the parser returned for purl

vars == <<isInProductionMode, argv, args, disk, db, pc, n_entries, ei, j,
          num_added, num_skipped, query, highest, changed, saved, run, purl,
          pres>>

driverVars == <<isInProductionMode, argv, args, disk, db, pc, n_entries, ei, j,
                num_added, num_skipped, query, highest, changed, saved, run>>

\* An option is the sequence of the values given for it: none, or one.
NoOpt == <<>>
Opt(v) == <<v>>

\* Config.db_path: a file pickle.load can read, or one it cannot (missing,
\* truncated, not a pickle).
Unreadable == [readable |-> FALSE]
File(d) == [readable |-> TRUE, data |-> d]

NoQuery == [sent |-> FALSE]
NotParsed == [raised |-> "not called"]
NoArgs == [parsed |-> FALSE]
NoRecord == [none |-> TRUE]

\* {}
EmptyDb == <<>>

\* default of --results-per-iteration
DefaultResultsPerIteration == 200

\* j = encode_feedparser_dict(e) with j['_rawid'] and j['_version'] set.
Normalized(e, p) ==
  ("_rawid" :> p.rawid @@ "_version" :> p.version) @@ encode_feedparser_dict(e)

\* The record the script stores for paper i at version 1.
StoredRecord(i) ==
  Normalized(Entry(i, 1, "t"), parse_arxiv_url(Url(i, 1)))

\* A database an earlier run left behind: papers 1 .. k at version 1.
StoreOf(k) == [r \in {<<ToString(i)>> : i \in 1..k} |-> StoredRecord(DigitVal(r[1]))]

\* No option given.
NoOptions ==
  [start_index |-> NoOpt, max_index |-> NoOpt, results_per_iteration |-> NoOpt,
   break_on_no_added |-> NoOpt]

\* The command lines tried: none of the options, three options on their own,
\* and --break-on-no-added 0 with pages of one result, so that the index
\* after the first page is still below the default --max-index.
Argvs ==
  {NoOptions,
   [NoOptions EXCEPT !.start_index = Opt(0)],
   [NoOptions EXCEPT !.max_index = Opt(1)],
   [NoOptions EXCEPT !.results_per_iteration = Opt(0)],
   [NoOptions EXCEPT !.break_on_no_added = Opt(0),
                     !.results_per_iteration = Opt(1)]}

\* The slip of a fixed default for --start-index: the first result.
ParseArgsFromZero(a, existing_files_count) ==
  [start_index |-> IF a.start_index = NoOpt THEN 0 ELSE a.start_index[1],
   max_index |-> IF a.max_index = NoOpt THEN max_paper_index ELSE a.max_index[1],
   results_per_iteration |-> IF a.results_per_iteration = NoOpt
                             THEN DefaultResultsPerIteration
                             ELSE a.results_per_iteration[1],
   break_on_no_added |-> IF a.break_on_no_added = NoOpt THEN 1
                         ELSE a.break_on_no_added[1]]

\* parser.parse_args(): an option left out takes its default, and the
\* default of --start-index is the size of the database just loaded.
ParseArgs(a, existing_files_count) ==
  [start_index |-> IF a.start_index = NoOpt THEN existing_files_count
                   ELSE a.start_index[1],
   max_index |-> IF a.max_index = NoOpt THEN max_paper_index ELSE a.max_index[1],
   results_per_iteration |-> IF a.results_per_iteration = NoOpt
                             THEN DefaultResultsPerIteration
                             ELSE a.results_per_iteration[1],
   break_on_no_added |-> IF a.break_on_no_added = NoOpt THEN 1
                         ELSE a.break_on_no_added[1]]

\* len(db)
Size(d) == Cardinality(DOMAIN d)

\* range(start, stop, step) has a first element.
RangeNonEmpty(start, stop, step) ==
  IF step > 0 THEN start < stop ELSE step < 0 /\ start > stop

\* History: the run started from an empty database, and every page since
\* had k entries, each with a raw id the database did not have yet. A run
\* that is broken, or longer than MaxPages, is not followed any further.
NoRun == [alike |-> FALSE, pages |-> 0, k |-> 0]
NewRun == [alike |-> TRUE, pages |-> 0, k |-> 0]

\* The state before the first pass of the driver's loop, with the database
\* file one of files and the history of pages h.
Start(files, h) ==
  /\ isInProductionMode \in BOOLEAN
  /\ argv \in Argvs
  /\ args = NoArgs
  /\ disk \in files
  /\ db = EmptyDb
  /\ pc = "Loading"
  /\ n_entries = 0
  /\ ei = 0
  /\ j = NoRecord
  /\ num_added = 0
  /\ num_skipped = 0
  /\ query = NoQuery
  /\ highest = IF disk.readable
               THEN [r \in DOMAIN disk.data |-> disk.data[r]["_version"]]
               ELSE EmptyDb
  /\ changed = FALSE
  /\ saved = FALSE
  /\ run = h
  /\ purl = <<>>
  /\ pres = NotParsed

Init ==
  Start({Unreadable, File(EmptyDb), File(StoreOf(1)), File(StoreOf(MaxId))},
        NoRun)

\* ------------------------------------------------------------ load_database
\* The slip of falling back to a new database in every mode.
NeverQuit == FALSE

\* if isInProductionMode: quit()
QuitOnLoadFailure == isInProductionMode

\* pickle.load fails: quit() in production mode, else a new database, and
\* the arguments are parsed.
LoadFails ==
  /\ pc = "Loading"
  /\ ~disk.readable
  /\ IF QuitOnLoadFailure
     THEN /\ pc' = "Quit"
          /\ UNCHANGED <<db, args>>
     ELSE /\ pc' = "Requesting"
          /\ db' = EmptyDb
          /\ args' = ParseArgs(argv, Size(EmptyDb))
  /\ changed' = FALSE
  /\ saved' = FALSE
  /\ query' = NoQuery
  /\ UNCHANGED <<run, isInProductionMode, argv, disk, n_entries, ei, j, num_added,
                 num_skipped, highest, purl, pres>>

\* db = load_database(), then the arguments are parsed.
Load ==
  /\ pc = "Loading"
  /\ disk.readable
  /\ db' = disk.data
  /\ args' = ParseArgs(argv, Size(disk.data))
  /\ pc' = "Requesting"
  /\ changed' = FALSE
  /\ saved' = FALSE
  /\ query' = NoQuery
  /\ UNCHANGED <<run, isInProductionMode, argv, disk, n_entries, ei, j, num_added,
                 num_skipped, highest, purl, pres>>

\* ----------------------------------------------------- fetch_new_paper_info
\* i of "for i in range(...)" in the pass that comes next: the start index
\* in the first pass, one step past the last request in a later one.
LoopIndex ==
  IF query.sent THEN query.start + args.results_per_iteration
  ELSE args.start_index

\* range() refuses a step of zero: ValueError.
RangeRaises ==
  /\ pc = "Requesting"
  /\ args.results_per_iteration = 0
  /\ pc' = "Raised"
  /\ UNCHANGED <<run, isInProductionMode, argv, args, disk, db, n_entries, ei, j,
                 num_added, num_skipped, query, highest, changed,
                 saved, purl, pres>>

\* The range has no element left: the function falls off its end and
\* returns None, and "None > 0" in the driver raises TypeError.
EmptyRange ==
  /\ pc = "Requesting"
  /\ args.results_per_iteration # 0
  /\ ~RangeNonEmpty(LoopIndex, args.max_index, args.results_per_iteration)
  /\ pc' = "Raised"
  /\ UNCHANGED <<run, isInProductionMode, argv, args, disk, db, n_entries, ei, j,
                 num_added, num_skipped, query, highest, changed,
                 saved, purl, pres>>

\* A pass of the loop sends the request; urlopen raises.
RequestFails ==
  /\ pc = "Requesting"
  /\ RangeNonEmpty(LoopIndex, args.max_index, args.results_per_iteration)
  /\ query' = [sent |-> TRUE, start |-> LoopIndex,
               max_results |-> args.results_per_iteration]
  /\ pc' = "Raised"
  /\ UNCHANGED <<run, isInProductionMode, argv, args, disk, db, n_entries, ei, j,
                 num_added, num_skipped, highest, changed, saved,
                 purl, pres>>

\* A pass of the loop sends the request and parses the response.
Request ==
  /\ pc = "Requesting"
  /\ RangeNonEmpty(LoopIndex, args.max_index, args.results_per_iteration)
  /\ query' = [sent |-> TRUE, start |-> LoopIndex,
               max_results |-> args.results_per_iteration]
  /\ n_entries' \in 0..MaxPageLen
  /\ ei' = 0
  /\ j' = NoRecord
  /\ num_added' = 0
  /\ num_skipped' = 0
  /\ pc' = "Merging"
  /\ UNCHANGED <<run, isInProductionMode, argv, args, disk, db, highest, changed,
                 saved, purl, pres>>

\* The slips of taking an equal version for a new one, and of comparing the
\* wrong way round.
NotOlder(rec, stored) == rec["_version"] >= stored["_version"]
Older(rec, stored) == rec["_version"] < stored["_version"]

\* j['_version'] > db[rawid]['_version']
Newer(rec, stored) == rec["_version"] > stored["_version"]

\* The slip of storing every record that parses.
StoreAlways(d, rec) == TRUE

\* The slip of dropping the "not": only a paper the database has is stored.
StoreKnownOnly(d, rec) ==
  IF rec["_rawid"] \in DOMAIN d THEN TRUE ELSE FALSE

\* not rawid in db or j['_version'] > db[rawid]['_version']
MustStore(d, rec) ==
  IF rec["_rawid"] \notin DOMAIN d THEN TRUE ELSE Newer(rec, d[rec["_rawid"]])

\* The slip of a field-level update: the stored record keeps the fields the
\* new one lacks.
Updated(d, rec) ==
  [r \in DOMAIN d \cup {rec["_rawid"]} |->
     IF r # rec["_rawid"] THEN d[r]
     ELSE IF r \in DOMAIN d THEN rec @@ d[r] ELSE rec]

\* db[rawid] = j
Stored(d, rec) ==
  [r \in DOMAIN d \cup {rec["_rawid"]} |-> IF r = rec["_rawid"] THEN rec ELSE d[r]]

\* Per entry of the feed, what the first lines of the loop body compute:
\* j = encode_feedparser_dict(e) and parse_arxiv_url(j['id']).
Encoded == [e \in Entries |-> encode_feedparser_dict(e)]
Parsed == [e \in Entries |-> parse_arxiv_url(Encoded[e].id)]

\* History: rec has been merged.
Seen(h, rec) ==
  [r \in DOMAIN h \cup {rec["_rawid"]} |->
     IF r # rec["_rawid"] THEN h[r]
     ELSE IF r \in DOMAIN h /\ h[r] >= rec["_version"] THEN h[r]
     ELSE rec["_version"]]

\* The entry of a pass had a raw id the database had, or not.
RunEntry(h, d, rec) ==
  IF rec["_rawid"] \in DOMAIN d THEN NoRun ELSE h

\* A page of n entries is through.
RunPage(h, n) ==
  IF h.alike /\ h.pages < MaxPages /\ (h.pages = 0 \/ h.k = n)
  THEN [h EXCEPT !.pages = @ + 1, !.k = n]
  ELSE NoRun

\* The slip of catching the error of a url that does not parse: the entry
\* is counted as skipped and the loop goes on.
ParseSkips ==
  /\ pc = "Merging"
  /\ ei < n_entries
  /\ \E e \in Entries :
       /\ Parsed[e].raised # "none"
       /\ j' = Encoded[e]
  /\ num_skipped' = num_skipped + 1
  /\ ei' = ei + 1
  /\ UNCHANGED <<run, isInProductionMode, argv, args, disk, db, pc, n_entries,
                 num_added, query, highest, changed, saved, purl, pres>>

\* An entry whose url does not parse: the assert, or int()'s ValueError.
ParseRaises ==
  /\ pc = "Merging"
  /\ ei < n_entries
  /\ \E e \in Entries :
       /\ Parsed[e].raised # "none"
       /\ j' = Encoded[e]
  /\ pc' = "Raised"
  /\ UNCHANGED <<run, isInProductionMode, argv, args, disk, db, n_entries, ei,
                 num_added, num_skipped, query, highest, changed, saved, purl,
                 pres>>

\* A new paper or a new version: stored, printed and counted as added.
AddEntry ==
  /\ pc = "Merging"
  /\ ei < n_entries
  /\ \E e \in Entries :
       LET p == Parsed[e]
       IN  /\ p.raised = "none"
           /\ LET rec == Normalized(e, p)
              IN  /\ MustStore(db, rec)
                  /\ j' = rec
                  /\ db' = Stored(db, rec)
                  /\ highest' = Seen(highest, rec)
                  /\ run' = RunEntry(run, db, rec)
                  /\ changed' = TRUE
  /\ num_added' = num_added + 1
  /\ ei' = ei + 1
  /\ UNCHANGED <<isInProductionMode, argv, args, disk, pc, n_entries,
                 num_skipped, query, saved, purl, pres>>

\* A record the database has in this version or a later one: skipped.
SkipEntry ==
  /\ pc = "Merging"
  /\ ei < n_entries
  /\ \E e \in Entries :
       LET p == Parsed[e]
       IN  /\ p.raised = "none"
           /\ LET rec == Normalized(e, p)
              IN  /\ ~MustStore(db, rec)
                  /\ j' = rec
                  /\ highest' = Seen(highest, rec)
                  /\ run' = RunEntry(run, db, rec)
  /\ num_skipped' = num_skipped + 1
  /\ ei' = ei + 1
  /\ UNCHANGED <<isInProductionMode, argv, args, disk, db, pc, n_entries,
                 num_added, query, changed, saved, purl, pres>>

\* The slip of saving whatever the count is.
SaveAlways(n) == n >= 0

\* The slip of an off-by-one test: a page that added one record is not saved.
SaveSeveral(n) == n > 1

\* if num_added > 0
SaveWanted(n) == n > 0

\* The slip of leaving the "return" out of the loop's body.
NoReturnInsideLoop == FALSE

\* "return num_added" is the last statement of the loop's body, so the first
\* pass of "for i in range(...)" is the only one.
ReturnInsideLoop == TRUE

\* After the entries: the two stopping conditions are printed only, the
\* function waits and returns num_added from inside the first pass of its
\* loop, which ends its locals, and the driver saves if num_added > 0.
EndPage ==
  /\ pc = "Merging"
  /\ ei = n_entries
  /\ pc' = IF ~ReturnInsideLoop THEN "Requesting"
           ELSE IF SaveWanted(num_added) THEN "Saving" ELSE "Sleeping"
  /\ n_entries' = 0
  /\ ei' = 0
  /\ j' = NoRecord
  /\ num_skipped' = 0
  /\ run' = RunPage(run, n_entries)
  /\ UNCHANGED <<isInProductionMode, argv, args, disk, db, num_added, query,
                 highest, changed, saved, purl, pres>>

\* ------------------------------------------------------------ the main loop
\* utils.safe_pickle_dump: the file is replaced as a whole.
safe_pickle_dump(data) == File(data)

\* store_database(db, Config.db_path)
Save ==
  /\ pc = "Saving"
  /\ disk' = safe_pickle_dump(db)
  /\ saved' = TRUE
  /\ pc' = "Sleeping"
  /\ UNCHANGED <<run, isInProductionMode, argv, args, db, n_entries, ei, j,
                 num_added, num_skipped, query, highest, changed,
                 purl, pres>>

\* The slip of applying the cap in every mode.
CapInAnyMode == Size(db) >= max_paper_index

\* isInProductionMode and len(db) >= max_paper_index
CapReached == isInProductionMode /\ Size(db) >= max_paper_index

\* wait_a_couple_of_seconds(60), then break at the cap or go round again.
Sleep ==
  /\ pc = "Sleeping"
  /\ pc' = IF CapReached THEN "Terminated" ELSE "Loading"
  /\ UNCHANGED <<run, isInProductionMode, argv, args, disk, db, n_entries, ei, j,
                 num_added, num_skipped, query, highest, changed,
                 saved, purl, pres>>

Next ==
  \/ LoadFails
  \/ Load
  \/ RangeRaises
  \/ EmptyRange
  \/ RequestFails
  \/ Request
  \/ ParseRaises
  \/ AddEntry
  \/ SkipEntry
  \/ EndPage
  \/ Save
  \/ Sleep

Spec == Init /\ [][Next]_vars

\* Every statement the script reaches completes: no step is put off forever.
FairSpec == Spec /\ WF_vars(Next)

\* ------------------------------------------------- the parser on its own
Urls == UNION {[1..n -> Chars] : n \in 0..MaxUrlLen}

InitParse ==
  /\ purl \in Urls
  /\ pres = NotParsed
  /\ isInProductionMode = TRUE
  /\ argv = NoOptions
  /\ args = NoArgs
  /\ disk = Unreadable
  /\ db = EmptyDb
  /\ pc = "Parsing"
  /\ n_entries = 0
  /\ ei = 0
  /\ j = NoRecord
  /\ num_added = 0
  /\ num_skipped = 0
  /\ query = NoQuery
  /\ highest = EmptyDb
  /\ changed = FALSE
  /\ saved = FALSE
  /\ run = NoRun

\* parse_arxiv_url(purl)
ParseUrl ==
  /\ pc = "Parsing"
  /\ pres = NotParsed
  /\ pres' = parse_arxiv_url(purl)
  /\ UNCHANGED <<driverVars, purl>>

NextParse == ParseUrl

ParseSpec == InitParse /\ [][NextParse]_vars

TypeOK ==
  /\ isInProductionMode \in BOOLEAN
  /\ pc \in {"Loading", "Requesting", "Merging", "Saving", "Sleeping",
             "Terminated", "Quit", "Raised", "Parsing"}
  /\ num_added \in 0..MaxPageLen
  /\ num_skipped \in 0..MaxPageLen
  /\ n_entries \in 0..MaxPageLen
  /\ ei \in 0..n_entries
  /\ run \in [alike : BOOLEAN, pages : 0..MaxPages, k : 0..MaxPageLen]

\* ------------------------------------------------------------ the merge
\* A pass of the entry loop that got past the parser.
MergePass == pc = "Merging" /\ ei' = ei + 1

\* C1: once the database is loaded, every stored record sits under its own
\* raw id (so no raw id has two records), every raw id merged so far has a
\* record, and the stored version is the highest version merged for it.
C1_OneRecordMaxVersion ==
  args # NoArgs =>
    /\ DOMAIN db = DOMAIN highest
    /\ \A r \in DOMAIN db :
         /\ db[r]["_rawid"] = r
         /\ db[r]["_version"] = highest[r]

\* The scenario of the spec: an empty database, one page of three entries,
\* two papers at version 1 and then version 2 of one of them.
C1_Witness ==
  /\ pc = "Sleeping"
  /\ saved
  /\ query.sent /\ query.start = 0 /\ argv.start_index = NoOpt
  /\ num_added = 3
  /\ Size(db) = 2
  /\ db[<<"1">>]["_version"] = 2
  /\ "arxiv_journal_ref" \in DOMAIN db[<<"1">>]
  /\ db[<<"2">>]["_version"] = 1

\* C2: a pass of the entry loop does exactly one of three things with its
\* record j: inserts it and counts it as added when its raw id is absent,
\* replaces the stored record and counts it as added when its version is
\* strictly greater, and otherwise leaves the database alone and counts it as
\* skipped.
C2_InsertReplaceOrSkip ==
  [][MergePass =>
       LET r == j'["_rawid"]
           put == /\ DOMAIN db' = DOMAIN db \cup {r}
                  /\ db'[r] = j'
                  /\ \A x \in DOMAIN db \ {r} : db'[x] = db[x]
                  /\ num_added' = num_added + 1
                  /\ num_skipped' = num_skipped
           skip == /\ db' = db
                   /\ num_added' = num_added
                   /\ num_skipped' = num_skipped + 1
       IN  IF r \notin DOMAIN db THEN put
           ELSE IF j'["_version"] > db[r]["_version"] THEN put
           ELSE skip]_vars

\* All three in one page of three entries: one was skipped, one inserted
\* (the database has one paper more than the file it was loaded from), and
\* the record of the paper the file has at version 1 was replaced.
C2_Witness ==
  /\ pc = "Merging"
  /\ ei = 3
  /\ num_added = 2
  /\ num_skipped = 1
  /\ disk.readable
  /\ Size(db) = Size(disk.data) + 1
  /\ j["_rawid"] \in DOMAIN disk.data
  /\ disk.data[j["_rawid"]]["_version"] = 1
  /\ j["_version"] = 2
  /\ db[j["_rawid"]] = j

\* C3: a pass whose record has the raw id of the record of the pass before
\* it, in the same or a lower version, changes neither the size of the
\* database nor the stored version nor any stored record.
C3_SecondMergeChangesNothing ==
  [][(/\ MergePass
      /\ ei >= 1
      /\ j'["_rawid"] = j["_rawid"]
      /\ j'["_version"] <= j["_version"])
       => /\ db' = db
          /\ Size(db') = Size(db)
          /\ db'[j["_rawid"]]["_version"] = db[j["_rawid"]]["_version"]]_vars

\* An empty database, a paper inserted, and the same version of it, with
\* another title, merged right after: skipped, the first title is kept.
C3_Witness ==
  /\ pc = "Merging"
  /\ query.sent /\ query.start = 0 /\ argv.start_index = NoOpt
  /\ ei = 2
  /\ num_added = 1
  /\ num_skipped = 1
  /\ Size(db) = 1
  /\ j["title"] = "t, revised"
  /\ db[j["_rawid"]]["title"] = "t"

\* C4: when the record of a pass has a stored raw id and a strictly higher
\* version, the stored record becomes that record: it has the fields of the
\* incoming record with their values, none of the fields only the previous
\* record had, and the records of the other raw ids stay as they were.
C4_ReplaceIsWholeRecord ==
  [][(MergePass /\ j'["_rawid"] \in DOMAIN db
        /\ j'["_version"] > db[j'["_rawid"]]["_version"])
       => LET r == j'["_rawid"]
          IN  /\ DOMAIN db' = DOMAIN db
              /\ \A f \in DOMAIN j' : f \in DOMAIN db'[r] /\ db'[r][f] = j'[f]
              /\ \A f \in DOMAIN db[r] \ DOMAIN j' : f \notin DOMAIN db'[r]
              /\ DOMAIN db'[r] = DOMAIN j'
              /\ \A x \in DOMAIN db \ {r} : db'[x] = db[x]]_vars

\* The first entry of a page replaced the version 1 the file still holds,
\* with its comment, by version 2, with its journal reference, next to the
\* record of another paper.
C4_Witness ==
  /\ pc = "Merging"
  /\ ei = 1
  /\ num_added = 1
  /\ disk.readable
  /\ Size(disk.data) = 2
  /\ j["_rawid"] \in DOMAIN disk.data
  /\ disk.data[j["_rawid"]]["_version"] = 1
  /\ "arxiv_comment" \in DOMAIN disk.data[j["_rawid"]]
  /\ Size(db) = 2
  /\ db[j["_rawid"]] = j
  /\ db[j["_rawid"]]["_version"] = 2
  /\ "arxiv_journal_ref" \in DOMAIN db[j["_rawid"]]
  /\ "arxiv_comment" \notin DOMAIN db[j["_rawid"]]

\* ------------------------------------------------------------- the driver
\* The iteration is over: the script sleeps, has left the loop, or is dead.
IterationOver == pc \in {"Sleeping", "Terminated", "Quit", "Raised"}

\* C5 as claimed: in every iteration, the database is saved if and only if
\* a record was inserted or replaced in memory during the iteration.
C5_SavedIffChangedInEveryIteration == IterationOver => (saved <=> changed)

\* C5: an iteration whose fetch cycle returns saves the database if and only
\* if the cycle inserted or replaced a record; an iteration cut short by an
\* error or by quit() saves nothing, whatever was merged in memory; and
\* nothing is saved before the cycle has returned.
C5_SavedIffChangedWhenCycleReturns ==
  /\ pc \in {"Sleeping", "Terminated"} => (saved <=> changed)
  /\ pc = "Saving" => changed /\ ~saved
  /\ pc \in {"Requesting", "Merging", "Quit", "Raised"} => ~saved
  /\ saved => disk = File(db)

\* An iteration whose cycle added records has saved the database it now
\* holds.
C5_Witness ==
  /\ pc = "Sleeping"
  /\ num_added > 0
  /\ changed
  /\ saved
  /\ disk = File(db)

\* The states of the spec's machine: the request and the entry loop are
\* both Fetching.
Phase(p) == IF p \in {"Requesting", "Merging"} THEN "Fetching" ELSE p

\* C6: every step of the driver follows Loading, Fetching, optional Saving,
\* Sleeping; Sleeping goes to Terminated exactly when production mode is on
\* and the database has reached the cap, and to Loading otherwise; nothing
\* else enters Terminated, and nothing follows it.
C6_DriverOrder ==
  [][/\ pc = "Loading" => Phase(pc') \in {"Fetching", "Quit"}
     /\ Phase(pc) = "Fetching"
          => Phase(pc') \in {"Fetching", "Saving", "Sleeping", "Raised"}
     /\ pc = "Saving" => pc' = "Sleeping"
     /\ pc = "Sleeping"
          => pc' = IF isInProductionMode /\ Size(db) >= max_paper_index
                   THEN "Terminated" ELSE "Loading"
     /\ pc' = "Terminated" => pc = "Sleeping"
     /\ pc = "Terminated" => FALSE]_vars

\* The script left its loop at the cap after an iteration that saved.
C6_Witness ==
  /\ pc = "Terminated"
  /\ isInProductionMode
  /\ saved
  /\ Size(db) >= max_paper_index

\* C7: when the database cannot be loaded, production mode quits on the
\* spot, with no request sent, nothing merged and nothing saved, and takes
\* no step after that; any other mode goes on to fetch with an empty
\* database.
C7_LoadFailure ==
  /\ [](pc = "Quit" => ~query.sent /\ ~changed /\ ~saved /\ ~disk.readable)
  /\ [][/\ (pc = "Loading" /\ ~disk.readable)
             => IF isInProductionMode
                THEN /\ pc' = "Quit"
                     /\ ~query'.sent
                     /\ UNCHANGED <<db, disk, highest>>
                ELSE /\ pc' = "Requesting"
                     /\ db' = EmptyDb
        /\ pc = "Quit" => FALSE]_vars

\* Production mode has quit on a file it could not read.
C7_Witness == pc = "Quit" /\ isInProductionMode /\ ~disk.readable

\* C8 as claimed: every execution reaches an end.
C8_AlwaysTerminates == <>(pc \in {"Terminated", "Quit", "Raised"})

\* C8: every iteration of the loop reaches its end, but the loop has none of
\* its own: the script leaves it only in production mode (at the cap, or on
\* a database it cannot load) or on an error, and otherwise goes round for
\* ever.
C8_IterationsEndLoopDoesNot ==
  /\ (pc = "Loading") ~> (pc \in {"Sleeping", "Quit", "Raised"})
  /\ [](pc \in {"Terminated", "Quit"} => isInProductionMode)
  /\ [][pc = "Sleeping" /\ ~isInProductionMode => pc' = "Loading"]_vars

\* Outside production mode the database is at the cap and the script is
\* about to load it again.
C8_Witness ==
  /\ pc = "Loading"
  /\ ~isInProductionMode
  /\ query.sent
  /\ Size(db) >= max_paper_index

\* ------------------------------------------------------------- the parser
\* The number a run of decimal digits denotes, last digit first.
RECURSIVE Denotes(_)
Denotes(n) ==
  IF n = <<>> THEN 0
  ELSE 10 * Denotes(SubSeq(n, 1, Len(n) - 1))
         + (CASE n[Len(n)] = "0" -> 0 [] n[Len(n)] = "1" -> 1
              [] n[Len(n)] = "2" -> 2 [] n[Len(n)] = "3" -> 3
              [] n[Len(n)] = "4" -> 4 [] n[Len(n)] = "5" -> 5
              [] n[Len(n)] = "6" -> 6 [] n[Len(n)] = "7" -> 7
              [] n[Len(n)] = "8" -> 8 [] n[Len(n)] = "9" -> 9)

\* A positive integer written in decimal digits.
PositiveDecimal(n) ==
  /\ n # <<>>
  /\ \A i \in 1..Len(n) : n[i] \in {"0", "1", "2", "3", "4", "5", "6", "7", "8", "9"}
  /\ Denotes(n) > 0

\* purl is A/<id>v<n> with the '/' at i and the 'v' at k.
HasForm(i, k) ==
  /\ i < k
  /\ purl[i] = "/"
  /\ purl[k] = "v"
  /\ \A m \in (i + 1)..(k - 1) : purl[m] \notin {"/", "v"}
  /\ PositiveDecimal(SubSeq(purl, k + 1, Len(purl)))

\* C9: for a url A/<id>v<n>, with neither '/' nor 'v' in <id> and n a
\* positive integer in decimal digits, the parser returns <id> as the raw id
\* and n as the version, whatever A is.
C9_ParsesIdAndVersion ==
  pres # NotParsed =>
    \A i, k \in 1..Len(purl) :
      HasForm(i, k) =>
        /\ pres.raised = "none"
        /\ pres.rawid = SubSeq(purl, i + 1, k - 1)
        /\ pres.version = Denotes(SubSeq(purl, k + 1, Len(purl)))

\* "/v/1v2": the prefix holds both delimiters; raw id "1", version 2.
C9_Witness ==
  /\ purl = <<"/", "v", "/", "1", "v", "2">>
  /\ pres = [raised |-> "none", rawid |-> <<"1">>, version |-> 2]

\* The 'v's of the token that follows the last '/' of purl.
VersionDelimiters ==
  {i \in 1..Len(purl) : purl[i] = "v" /\ \A m \in i..Len(purl) : purl[m] # "/"}

\* C10: for a url whose token after the last '/' holds no 'v' or more than
\* one, the parser fails on its assert and returns no raw id and no version.
C10_ParseError ==
  (pres # NotParsed /\ Cardinality(VersionDelimiters) # 1) =>
    pres = [raised |-> "AssertionError"]

\* A url with two 'v's after its last '/' was refused.
C10_Witness ==
  /\ Cardinality(VersionDelimiters) = 2
  /\ purl[Len(purl)] = "2"
  /\ pres = [raised |-> "AssertionError"]

\* The runs that start without a stored paper, their pages followed.
InitRun == Start({Unreadable, File(EmptyDb)}, NewRun)
RunSpec == InitRun /\ [][Next]_vars

\* The function is not in the middle of a page, and has not raised.
BetweenPages ==
  pc \in {"Loading", "Requesting", "Saving", "Sleeping", "Terminated"}

\* C11: starting from an empty database, when each of the p pages processed
\* so far had k entries, every one with a raw id that was not in the
\* database when it was merged, the database holds exactly p * k records.
C11_PagesTimesK ==
  (run.alike /\ BetweenPages) => Size(db) = run.pages * run.k

\* Two pages of one new paper each have been processed and stored.
C11_Witness ==
  /\ run.alike
  /\ pc = "Sleeping"
  /\ run.pages = 2
  /\ run.k = 1
  /\ Size(db) = 2
  /\ disk = File(db)

\* C12: a cycle whose first index is at or past --max-index ends normally:
\* it sends no request and reports no record added, and the driver saves
\* nothing and goes on to its sleep and to the test of the cap.
C12_EmptyRangeEndsNormally ==
  [][(/\ pc = "Requesting"
      /\ args.results_per_iteration > 0
      /\ LoopIndex >= args.max_index)
     => (/\ pc' = "Sleeping"
         /\ query' = NoQuery
         /\ num_added' = 0
         /\ ~saved'
         /\ UNCHANGED <<db, disk>>)]_vars

\* C13: --break-on-no-added decides what follows a page that added no
\* record: with 1 the cycle ends after that page, with 0 the cycle requests
\* the next page whenever the next index is below --max-index.
C13_FlagControlsStop ==
  [][(pc = "Merging" /\ ei = n_entries /\ num_added = 0)
     => IF args.break_on_no_added = 1
        THEN pc' = "Sleeping"
        ELSE (/\ args.results_per_iteration > 0
              /\ query.start + args.results_per_iteration < args.max_index)
             => (pc' = "Requesting" /\ LoopIndex' < args.max_index)]_vars

\* The database as load_database returned it in this iteration, while
\* nothing has been saved yet.
Loaded == IF disk.readable THEN disk.data ELSE EmptyDb

\* The raw ids whose record is not the one that was loaded.
Touched == {r \in DOMAIN db : IF r \in DOMAIN Loaded THEN db[r] # Loaded[r] ELSE TRUE}

TokenDelimiters(u) ==
  {i \in 1..Len(u) : u[i] = "v" /\ \A m \in i..Len(u) : u[m] # "/"}

\* u is not of the form A/<id>v<n>: the token after its last '/' has no 'v'
\* or several, or what follows the 'v' is not a run of decimal digits.
UrlFails(u) ==
  \/ Cardinality(TokenDelimiters(u)) # 1
  \/ \E k \in TokenDelimiters(u) :
       \/ k = Len(u)
       \/ \E m \in (k + 1)..Len(u) :
            u[m] \notin {"0", "1", "2", "3", "4", "5", "6", "7", "8", "9"}

\* C15: an entry whose url does not parse fails the whole cycle at once:
\* the entry is not merged and no later entry is looked at, the process
\* stops, nothing is saved in that iteration, and the database file is the
\* one the iteration found (it changes in the driver's save only), whatever
\* the page had merged in memory before.
C15_ParseFailureStopsTheProcess ==
  [][/\ (pc = "Merging" /\ j' # NoRecord /\ UrlFails(j'["id"]))
        => (/\ pc' = "Raised"
            /\ ~saved'
            /\ UNCHANGED <<db, disk, ei, num_added, num_skipped>>)
     /\ pc = "Raised" => UNCHANGED vars
     /\ pc \in {"Requesting", "Merging"} => (~saved /\ UNCHANGED disk)]_vars

\* The page had stored a record in memory when a later entry of it failed
\* to parse: the process has stopped and the file lacks that record.
C15_Witness ==
  /\ pc = "Raised"
  /\ j # NoRecord
  /\ UrlFails(j["id"])
  /\ num_added > 0
  /\ ~saved
  /\ disk.readable
  /\ Size(disk.data) < Size(db)

\* C16: a page without entries is not fatal: the database in memory is
\* still the one that was loaded, the file is not written, and the driver
\* goes to its sleep and from there to the next iteration, or to its end
\* when the cap holds.
C16_EmptyPageNotFatal ==
  [][/\ (pc = "Merging" /\ n_entries = 0)
        => (/\ db = Loaded
            /\ pc' = "Sleeping"
            /\ ~saved'
            /\ UNCHANGED <<db, disk>>)
     /\ (pc = "Sleeping" /\ query.sent /\ ~changed)
        => (/\ pc' = IF isInProductionMode /\ Size(db) >= max_paper_index
                     THEN "Terminated" ELSE "Loading"
            /\ ~saved
            /\ UNCHANGED <<db, disk>>)]_vars

\* The driver sleeps after a request that came back without entries: an
\* entry that parses would have been stored in the empty database, and one
\* that does not would have stopped the process.
C16_Witness ==
  /\ pc = "Sleeping"
  /\ query.sent
  /\ db = EmptyDb
  /\ num_added = 0
  /\ ~changed
  /\ ~saved

\* C17: in an iteration without --start-index on the command line, the
\* request starts at the number of records of the database as that
\* iteration loaded it, so the start follows the database from iteration to
\* iteration.
C17_DefaultStartFollowsStore ==
  (query.sent /\ argv.start_index = NoOpt /\ ~saved)
    => query.start = Size(Loaded)

\* A later iteration: the file holds one paper, in a version that only an
\* earlier iteration of this run can have saved, and the request starts at 1.
C17_Witness ==
  /\ pc = "Merging"
  /\ argv.start_index = NoOpt
  /\ query.sent
  /\ query.start = 1
  /\ disk.readable
  /\ Size(disk.data) = 1
  /\ \E r \in DOMAIN disk.data : disk.data[r]["_version"] = 2

\* C18: no update is lost between iterations. When the driver sleeps, the
\* file holds the database in memory (in non-production mode an unreadable
\* file stands for the empty database); the database the next iteration
\* loads holds every paper merged so far in its highest version; and from
\* step to step no raw id leaves the database and no version goes down.
C18_NoUpdateLost ==
  [][/\ pc = "Sleeping"
        => \/ disk = File(db)
           \/ ~isInProductionMode /\ disk = Unreadable /\ db = EmptyDb
     /\ (pc = "Loading" /\ pc' = "Requesting")
        => \A r \in DOMAIN highest :
             r \in DOMAIN db' /\ db'[r]["_version"] = highest[r]
     /\ DOMAIN db \subseteq DOMAIN db'
     /\ \A r \in DOMAIN db : db'[r]["_version"] >= db[r]["_version"]]_vars

\* An iteration has loaded two papers, one in a version that an earlier
\* iteration of this run merged and saved.
C18_Witness ==
  /\ pc = "Requesting"
  /\ disk = File(db)
  /\ Size(db) = 2
  /\ \E r \in DOMAIN db : db[r]["_version"] = 2 /\ highest[r] = 2

====
